---- MODULE Spec2Model ----
(***************************************************************************)
(* A model of the baddns detection modules BadDNS_cname                    *)
(* (baddns/modules/cname.py) and BadDNS_ns (baddns/modules/ns.py): the     *)
(* asynchronous dispatch phase, one action per await, and the synchronous  *)
(* analyze phase, one action for the whole method.                         *)
(*                                                                         *)
(* Python values are modelled as follows.  A str on which the code does a  *)
(* substring or suffix test is a sequence of one-character strings; None   *)
(* and every value that may be None are records tagged by "type", so that  *)
(* any two of them can be compared; a list is a sequence, wrapped by       *)
(* PyList where the same slot may hold None.                               *)
(***************************************************************************)
EXTENDS Integers, Sequences, FiniteSets, TLC

VARIABLES
    name,                \* the class attribute name: which module the instance is
    signatures,          \* self.signatures: the signature corpus, in order
    target,              \* self.target
    target_dnsmanager,   \* self.target_dnsmanager
    cname_dnsmanager,    \* self.cname_dnsmanager   (CNAME module)
    target_httpmanager,  \* self.target_httpmanager (CNAME module)
    cname_whoismanager,  \* self.cname_whoismanager (CNAME module)
    pc,                  \* where dispatch stands: the await it is suspended at, or how it ended
    result,              \* what analyze did: not called, returned a value, or raised
    calls,               \* the collaborator calls started so far, in order
    net,                 \* the world outside: what DNS, HTTP and WHOIS answer for this target
    unknown_date,        \* date_parse: the value first handed to it
    parsed,              \* date_parse: the value after the applications so far
    napplied             \* date_parse: how many times it was applied

vars == <<name, signatures, target, target_dnsmanager, cname_dnsmanager, target_httpmanager,
          cname_whoismanager, pc, result, calls, net, unknown_date, parsed, napplied>>

(***************************************************************************)
(* Bounds of the model.                                                    *)
(***************************************************************************)
MaxLen == 2     \* longest domain name / nameserver name, in characters
MaxSigs == 2    \* longest signature corpus
MaxDay == 2     \* calendar days run 0..MaxDay

(***************************************************************************)
(* Python values.                                                          *)
(***************************************************************************)
None == [type |-> "NoneType"]
PyStr(s) == [type |-> "str", v |-> s]
PyList(l) == [type |-> "list", items |-> l]
PyInt(n) == [type |-> "int", n |-> n]

Chars == {"a", "b"}
StrUpTo(n) == UNION {[1..k -> Chars] : k \in 1..n}
Domains == StrUpTo(MaxLen)

Last(s) == s[Len(s)]

\* str.endswith: s.endswith(p)
EndsWith(s, p) ==
    /\ Len(p) <= Len(s)
    /\ SubSeq(s, Len(s) - Len(p) + 1, Len(s)) = p

\* the str operator "in": p in s
Contains(s, p) ==
    \E i \in 0..(Len(s) - Len(p)) : SubSeq(s, i + 1, i + Len(p)) = p

(***************************************************************************)
(* The collaborators of package baddns.lib, from their contracts.          *)
(***************************************************************************)
RecordTypes == {"A", "AAAA", "CNAME", "MX", "NS", "SOA", "TXT"}
AnswerKeys == RecordTypes \cup {"NXDOMAIN"}

\* a record set the modules never look into
SomeRecords == PyList(<<<<"r", "r">>>>)

\* DNSManager(target): nothing resolved yet
DNSManager(t) ==
    [type |-> "DNSManager",
     target |-> t,
     answers |-> [k \in AnswerKeys |-> IF k = "NXDOMAIN" THEN FALSE ELSE None],
     ips |-> {}]

\* rdatatype in omit_types, omit_types a Python list
Omitted(k, omit_types) == \E i \in 1..Len(omit_types) : omit_types[i] = PyStr(k)

\* DNSManager.dispatchDNS(omit_types): every record type that is not an element of
\* omit_types is queried and stored; reply is what the network answers for the target
dispatchDNS(dm, omit_types, reply) ==
    [dm EXCEPT
        !.answers = [k \in AnswerKeys |->
                        IF k = "NXDOMAIN" THEN reply.nx
                        ELSE IF Omitted(k, omit_types) THEN dm.answers[k]
                        ELSE reply.rr[k]],
        !.ips = reply.ips]

\* DNSManager.reset_answers()
reset_answers(dm) == [dm EXCEPT !.answers = DNSManager(dm.target).answers, !.ips = {}]

\* HttpManager(target): the four result variants, none fetched yet
HttpManager(t) ==
    [type |-> "HttpManager",
     target |-> t,
     http_allowredirects_results |-> None,
     http_denyredirects_results |-> None,
     https_allowredirects_results |-> None,
     https_denyredirects_results |-> None]

\* HttpManager.dispatchHttp(): bundle is the four fetch outcomes, each nullable
dispatchHttp(hm, bundle) ==
    [hm EXCEPT
        !.http_allowredirects_results = bundle[1],
        !.http_denyredirects_results = bundle[2],
        !.https_allowredirects_results = bundle[3],
        !.https_denyredirects_results = bundle[4]]

\* WhoisManager(target)
WhoisManager(t) == [type |-> "WhoisManager", target |-> t, whois_result |-> None]

\* WhoisManager.dispatchWHOIS()
dispatchWHOIS(wm, r) == [wm EXCEPT !.whois_result = r]

\* Matcher(rule).is_match(http_result): the rule is a marker looked for in the response
is_match(rule, hr) == rule \in hr.markers

HttpResponse(markers) == [type |-> "HttpResult", markers |-> markers]

(***************************************************************************)
(* Signatures.                                                             *)
(***************************************************************************)
Signature(mode, cnames, ips, nameservers, rule) ==
    [mode |-> mode,
     service_name |-> "",
     identifiers |-> [cnames |-> [i \in 1..Len(cnames) |-> [value |-> cnames[i]]],
                      ips |-> ips,
                      nameservers |-> nameservers],
     matcher_rule |-> rule]

ServiceNames == <<"ACME", "Bolt", "Cirrus", "Delta", "Echo">>

\* the corpora of at most n signatures drawn from pool; the signature at position i
\* is given the i-th service name
Corpora(pool, n) ==
    {[i \in 1..Len(c) |-> [c[i] EXCEPT !.service_name = ServiceNames[i]]] :
        c \in UNION {[1..k -> pool] : k \in 0..n}}

(***************************************************************************)
(* Dates.  A datetime is a calendar day and a time of day; date.today() is *)
(* the day Today.                                                          *)
(***************************************************************************)
Today == 1
Tods == {0, 1}
Datetime(d, t) == [type |-> "datetime", day |-> d, tod |-> t]
Date(d) == [type |-> "date", day |-> d]

DigitChars == <<"0", "1", "2", "3", "4", "5", "6", "7", "8", "9">>
DigitVal(c) == CHOOSE d \in 0..(Len(DigitChars) - 1) : DigitChars[d + 1] = c
IsDay(c) == \E d \in 0..MaxDay : DigitChars[d + 1] = c
IsTod(c) == \E t \in Tods : DigitChars[t + 1] = c

\* dateutil.parser.parse on a date string "D" or "DT": a day, then optionally a time
\* of day; a missing time of day is midnight
ParseFails(s) ==
    \/ Len(s) = 0
    \/ Len(s) > 2
    \/ ~IsDay(s[1])
    \/ Len(s) = 2 /\ ~IsTod(s[2])

parser_parse(s) ==
    Datetime(DigitVal(s[1]), IF Len(s) = 2 THEN DigitVal(s[2]) ELSE 0)

\* datetime.strftime("%Y-%m-%d %H:%M:%S")
strftime(dt) == PyStr(<<DigitChars[dt.day + 1], " ", DigitChars[dt.tod + 1]>>)

\* date_parse without the isinstance(unknown_date, datetime) branch of lines 30-31
date_parse_StringsOnly(x) ==
    IF x.type = "str"
    THEN IF ParseFails(x.v) THEN None ELSE parser_parse(x.v)
    ELSE None

\* date_parse with a default date in place of the None of lines 38-39 and 41-42
date_parse_DefaultOnFailure(x) ==
    IF x.type = "datetime" THEN x
    ELSE IF x.type = "str"
         THEN IF ParseFails(x.v) THEN Datetime(0, 0) ELSE parser_parse(x.v)
         ELSE Datetime(0, 0)

\* BadDNS_cname.date_parse
date_parse(x) ==
    IF x.type = "datetime" THEN x
    ELSE IF x.type = "str"
         THEN IF ParseFails(x.v) THEN None ELSE parser_parse(x.v)
         ELSE None

(***************************************************************************)
(* What analyze did, and the record of collaborator calls.                 *)
(***************************************************************************)
NotCalled == [kind |-> "not_called"]
Raised(e) == [kind |-> "raise", exc |-> e]
ReturnedFalse == [kind |-> "return_False"]
Returned(findings) == [kind |-> "return", value |-> findings]

Call(op, arg, omit_types) == [op |-> op, arg |-> arg, omit_types |-> omit_types]

(***************************************************************************)
(* BadDNS_cname.dispatch, one action per await.                            *)
(***************************************************************************)
\* what the resolver answers for the target: its CNAME chain, if any
TargetReply ==
    [rr |-> [k \in RecordTypes |-> IF k = "CNAME" THEN net.cname ELSE SomeRecords],
     nx |-> FALSE,
     ips |-> {}]

\* what the resolver answers for the end of the chain
TailReply ==
    [rr |-> [k \in RecordTypes |->
                IF net.nx \/ k = "CNAME" THEN None ELSE SomeRecords],
     nx |-> net.nx,
     ips |-> net.ips]

\* dispatch is called: line 45 starts the resolution of the target
CnameDispatch ==
    /\ name = "CNAME"
    /\ pc = "init"
    /\ calls' = Append(calls, Call("dispatchDNS", target_dnsmanager.target, <<>>))
    /\ pc' = "await_target_dns"
    /\ UNCHANGED <<name, signatures, target, target_dnsmanager, cname_dnsmanager,
                   target_httpmanager, cname_whoismanager, result, net,
                   unknown_date, parsed, napplied>>

\* line 45 raises: the store holds what was resolved before the failure
CnameTargetDnsFails ==
    /\ pc = "await_target_dns"
    /\ \E dm \in {target_dnsmanager, dispatchDNS(target_dnsmanager, <<>>, TargetReply)} :
          target_dnsmanager' = dm
    /\ pc' = "raised"
    /\ UNCHANGED <<name, signatures, target, cname_dnsmanager, target_httpmanager,
                   cname_whoismanager, result, calls, net, unknown_date, parsed, napplied>>

\* lines 47-56 without the return of line 53: dispatch goes on to the WHOIS lookup
CnameTargetDnsReturns_NoEarlyReturn ==
    /\ pc = "await_target_dns"
    /\ LET dm == dispatchDNS(target_dnsmanager, <<>>, TargetReply) IN
          /\ target_dnsmanager' = dm
          /\ IF dm.answers["CNAME"] # None
             THEN LET tail == Last(dm.answers["CNAME"].items) IN
                     /\ cname_dnsmanager' = DNSManager(tail)
                     /\ calls' = Append(calls, Call("dispatchDNS", tail, <<PyStr("CNAME")>>))
                     /\ pc' = "await_cname_dns"
                     /\ UNCHANGED cname_whoismanager
             ELSE /\ cname_whoismanager' = WhoisManager(dm.target)
                  /\ calls' = Append(calls, Call("dispatchWHOIS", dm.target, <<>>))
                  /\ pc' = "await_whois"
                  /\ UNCHANGED cname_dnsmanager
    /\ UNCHANGED <<name, signatures, target, target_httpmanager, result,
                   net, unknown_date, parsed, napplied>>

\* line 45 returns; lines 47-56
CnameTargetDnsReturns ==
    /\ pc = "await_target_dns"
    /\ LET dm == dispatchDNS(target_dnsmanager, <<>>, TargetReply) IN
          /\ target_dnsmanager' = dm
          /\ IF dm.answers["CNAME"] # None
             THEN LET tail == Last(dm.answers["CNAME"].items) IN
                     /\ cname_dnsmanager' = DNSManager(tail)
                     /\ calls' = Append(calls, Call("dispatchDNS", tail, <<PyStr("CNAME")>>))
                     /\ pc' = "await_cname_dns"
             ELSE /\ pc' = "returned_False"
                  /\ UNCHANGED <<cname_dnsmanager, calls>>
    /\ UNCHANGED <<name, signatures, target, target_httpmanager, cname_whoismanager, result,
                   net, unknown_date, parsed, napplied>>

\* line 56 raises
CnameTailDnsFails ==
    /\ pc = "await_cname_dns"
    /\ \E dm \in {cname_dnsmanager,
                  dispatchDNS(cname_dnsmanager, <<PyStr("CNAME")>>, TailReply)} :
          cname_dnsmanager' = dm
    /\ pc' = "raised"
    /\ UNCHANGED <<name, signatures, target, target_dnsmanager, target_httpmanager,
                   cname_whoismanager, result, calls, net, unknown_date, parsed, napplied>>

\* lines 58-68 without lines 59-62: on a tail that resolves no HttpManager is built
CnameTailDnsReturns_NoHttpManager ==
    /\ pc = "await_cname_dns"
    /\ LET dm == dispatchDNS(cname_dnsmanager, <<PyStr("CNAME")>>, TailReply)
           tail == Last(target_dnsmanager.answers["CNAME"].items)
       IN /\ cname_dnsmanager' = dm
          /\ cname_whoismanager' = WhoisManager(tail)
          /\ calls' = Append(calls, Call("dispatchWHOIS", tail, <<>>))
          /\ pc' = "await_whois"
          /\ UNCHANGED target_httpmanager
    /\ UNCHANGED <<name, signatures, target, target_dnsmanager, result, net,
                   unknown_date, parsed, napplied>>

\* lines 59-62 with the chain's tail handed to HttpManager instead of self.target
CnameTailDnsReturns_FetchTail ==
    /\ pc = "await_cname_dns"
    /\ LET dm == dispatchDNS(cname_dnsmanager, <<PyStr("CNAME")>>, TailReply)
           tail == Last(target_dnsmanager.answers["CNAME"].items)
       IN /\ cname_dnsmanager' = dm
          /\ IF ~dm.answers["NXDOMAIN"]
             THEN /\ target_httpmanager' = HttpManager(tail)
                  /\ calls' = Append(calls, Call("dispatchHttp", tail, <<>>))
                  /\ pc' = "await_http"
                  /\ UNCHANGED cname_whoismanager
             ELSE /\ cname_whoismanager' = WhoisManager(tail)
                  /\ calls' = Append(calls, Call("dispatchWHOIS", tail, <<>>))
                  /\ pc' = "await_whois"
                  /\ UNCHANGED target_httpmanager
    /\ UNCHANGED <<name, signatures, target, target_dnsmanager, result, net,
                   unknown_date, parsed, napplied>>

\* line 56 returns; lines 59-62 on a tail that resolves, lines 66-68 on NXDOMAIN
CnameTailDnsReturns ==
    /\ pc = "await_cname_dns"
    /\ LET dm == dispatchDNS(cname_dnsmanager, <<PyStr("CNAME")>>, TailReply)
           tail == Last(target_dnsmanager.answers["CNAME"].items)
       IN /\ cname_dnsmanager' = dm
          /\ IF ~dm.answers["NXDOMAIN"]
             THEN /\ target_httpmanager' = HttpManager(target)
                  /\ calls' = Append(calls, Call("dispatchHttp", target, <<>>))
                  /\ pc' = "await_http"
                  /\ UNCHANGED cname_whoismanager
             ELSE /\ cname_whoismanager' = WhoisManager(tail)
                  /\ calls' = Append(calls, Call("dispatchWHOIS", tail, <<>>))
                  /\ pc' = "await_whois"
                  /\ UNCHANGED target_httpmanager
    /\ UNCHANGED <<name, signatures, target, target_dnsmanager, result, net,
                   unknown_date, parsed, napplied>>

\* line 62 inside a try/except that swallows the failure: dispatch goes on to the
\* WHOIS lookup of lines 67-68
CnameHttpFails_Swallowed ==
    /\ pc = "await_http"
    /\ LET tail == Last(target_dnsmanager.answers["CNAME"].items) IN
          /\ \E n \in 0..Len(net.http) :
                target_httpmanager' =
                    dispatchHttp(target_httpmanager,
                                 [i \in 1..Len(net.http) |->
                                     IF i <= n THEN net.http[i] ELSE None])
          /\ cname_whoismanager' = WhoisManager(tail)
          /\ calls' = Append(calls, Call("dispatchWHOIS", tail, <<>>))
          /\ pc' = "await_whois"
    /\ UNCHANGED <<name, signatures, target, target_dnsmanager, cname_dnsmanager, result,
                   net, unknown_date, parsed, napplied>>

\* line 62 raises: the variants fetched before the failure are kept
CnameHttpFails ==
    /\ pc = "await_http"
    /\ \E n \in 0..Len(net.http) :
          target_httpmanager' =
              dispatchHttp(target_httpmanager,
                           [i \in 1..Len(net.http) |-> IF i <= n THEN net.http[i] ELSE None])
    /\ pc' = "raised"
    /\ UNCHANGED <<name, signatures, target, target_dnsmanager, cname_dnsmanager,
                   cname_whoismanager, result, calls, net, unknown_date, parsed, napplied>>

\* lines 63-68 with the lookup made on the first name of the chain, answers["CNAME"][0]
CnameHttpReturns_FirstAlias ==
    /\ pc = "await_http"
    /\ LET first == target_dnsmanager.answers["CNAME"].items[1] IN
          /\ target_httpmanager' = dispatchHttp(target_httpmanager, net.http)
          /\ cname_whoismanager' = WhoisManager(first)
          /\ calls' = Append(calls, Call("dispatchWHOIS", first, <<>>))
          /\ pc' = "await_whois"
    /\ UNCHANGED <<name, signatures, target, target_dnsmanager, cname_dnsmanager, result,
                   net, unknown_date, parsed, napplied>>

\* line 62 returns; lines 63-68
CnameHttpReturns ==
    /\ pc = "await_http"
    /\ LET tail == Last(target_dnsmanager.answers["CNAME"].items) IN
          /\ target_httpmanager' = dispatchHttp(target_httpmanager, net.http)
          /\ cname_whoismanager' = WhoisManager(tail)
          /\ calls' = Append(calls, Call("dispatchWHOIS", tail, <<>>))
          /\ pc' = "await_whois"
    /\ UNCHANGED <<name, signatures, target, target_dnsmanager, cname_dnsmanager, result,
                   net, unknown_date, parsed, napplied>>

\* line 68 raises: no result was stored
CnameWhoisFails ==
    /\ pc = "await_whois"
    /\ pc' = "raised"
    /\ UNCHANGED <<name, signatures, target, target_dnsmanager, cname_dnsmanager,
                   target_httpmanager, cname_whoismanager, result, calls, net,
                   unknown_date, parsed, napplied>>

\* line 68 returns; lines 69-70
CnameWhoisReturns ==
    /\ pc = "await_whois"
    /\ cname_whoismanager' = dispatchWHOIS(cname_whoismanager, net.whois)
    /\ pc' = "returned_True"
    /\ UNCHANGED <<name, signatures, target, target_dnsmanager, cname_dnsmanager,
                   target_httpmanager, result, calls, net, unknown_date, parsed, napplied>>

(***************************************************************************)
(* BadDNS_cname.analyze.                                                   *)
(***************************************************************************)
\* line 82: the CNAME patterns of a signature
sig_cnames(sig) ==
    [i \in 1..Len(sig.identifiers.cnames) |-> sig.identifiers.cnames[i].value]

\* line 80 without the test of the mode
NxdomainModeSelected_AnyMode(sig) == TRUE

\* line 80
NxdomainModeSelected(sig) == sig.mode = "dns_nxdomain"

\* line 85
SuffixMatch(domain, sig_cname) == EndsWith(domain, sig_cname)

\* lines 83-89: the inner loop stops at the first pattern the tail ends with;
\* the position of that pattern, 0 when the loop runs to its end
FirstSuffixPattern(domain, patterns) ==
    IF \E i \in 1..Len(patterns) : SuffixMatch(domain, patterns[i])
    THEN CHOOSE i \in 1..Len(patterns) :
            /\ SuffixMatch(domain, patterns[i])
            /\ \A j \in 1..(i - 1) : ~SuffixMatch(domain, patterns[j])
    ELSE 0

\* lines 79-89: the loop over the corpus from position i on; the break of line 89
\* leaves the inner loop only, so the loop visits every signature
RECURSIVE NxdomainLoop(_, _, _)
NxdomainLoop(i, signature_name, matching_domain) ==
    IF i > Len(signatures)
    THEN [signature_name |-> signature_name, matching_domain |-> matching_domain]
    ELSE LET sig == signatures[i]
             k == IF NxdomainModeSelected(sig)
                  THEN FirstSuffixPattern(cname_dnsmanager.target, sig_cnames(sig))
                  ELSE 0
         IN IF k > 0
            THEN NxdomainLoop(i + 1, PyStr(sig.service_name), PyStr(sig_cnames(sig)[k]))
            ELSE NxdomainLoop(i + 1, signature_name, matching_domain)

\* lines 75-99
NxdomainFindings ==
    LET m == NxdomainLoop(1, PyStr("Generic Dangling CNAME"), None) IN
       <<[target |-> target_dnsmanager.target,
          cnames |-> target_dnsmanager.answers["CNAME"],
          signature_name |-> m.signature_name,
          matching_domain |-> m.matching_domain,
          technique |-> "CNAME NXDOMAIN"]>>

\* lines 104-109
http_results ==
    <<target_httpmanager.http_allowredirects_results,
      target_httpmanager.http_denyredirects_results,
      target_httpmanager.https_allowredirects_results,
      target_httpmanager.https_denyredirects_results>>

\* line 112
HttpModeSelected(sig) == sig.mode = "http"

\* lines 114-126: a signature that declares CNAME patterns is skipped unless one of
\* them occurs in the last element of the chain
PassesCnameCheck(sig) ==
    Len(sig.identifiers.cnames) > 0 =>
        \E i \in 1..Len(sig.identifiers.cnames) :
            Contains(Last(target_dnsmanager.answers["CNAME"].items),
                     sig.identifiers.cnames[i].value)

\* lines 128-138 with only the first declared IP looked up
PassesIpCheck_FirstOnly(sig) ==
    Len(sig.identifiers.ips) > 0 => sig.identifiers.ips[1] \in cname_dnsmanager.ips

\* lines 128-138: a signature that declares IPs is skipped unless one of them is
\* among the resolved IPs of the tail
PassesIpCheck(sig) ==
    Len(sig.identifiers.ips) > 0 =>
        \E i \in 1..Len(sig.identifiers.ips) :
            sig.identifiers.ips[i] \in cname_dnsmanager.ips

\* lines 140-142
MatcherHits(sig) ==
    \E v \in 1..Len(http_results) :
        /\ http_results[v] # None
        /\ is_match(sig.matcher_rule, http_results[v])

\* lines 145-152
HttpFinding(sig) ==
    [target |-> target_dnsmanager.target,
     cnames |-> target_dnsmanager.answers["CNAME"],
     signature_name |-> PyStr(sig.service_name),
     technique |-> "HTTP String Match"]

\* lines 111-152: the loop over the corpus from position i on, never left early
RECURSIVE HttpLoop(_, _)
HttpLoop(i, findings) ==
    IF i > Len(signatures) THEN findings
    ELSE LET sig == signatures[i] IN
            IF /\ HttpModeSelected(sig)
               /\ PassesCnameCheck(sig)
               /\ PassesIpCheck(sig)
               /\ MatcherHits(sig)
            THEN HttpLoop(i + 1, Append(findings, HttpFinding(sig)))
            ELSE HttpLoop(i + 1, findings)

\* line 160: the literal looked for in the error text, word by word
NoMatchFor == <<"No", "match", "for">>

\* line 160 with startswith in place of "in"
IsNoMatchError_Prefix(data) ==
    Len(data) >= Len(NoMatchFor) /\ SubSeq(data, 1, Len(NoMatchFor)) = NoMatchFor

\* line 160
IsNoMatchError(data) == Contains(data, NoMatchFor)

\* lines 161-169
UnregisteredFinding ==
    [target |-> target_dnsmanager.target,
     cnames |-> target_dnsmanager.answers["CNAME"],
     signature_name |-> None,
     matching_domain |-> None,
     technique |-> "CNAME unregistered"]

\* lines 174-178
FirstExpiration(expiration_data) ==
    IF expiration_data.type = "list" THEN expiration_data.items[1] ELSE expiration_data

\* line 184 with <= in place of <
IsExpired_Inclusive(expiration_date) == expiration_date.day <= Today

\* line 184
IsExpired(expiration_date) == expiration_date.day < Today

\* lines 188-197
ExpiredFinding(expiration_date) ==
    [target |-> target_dnsmanager.target,
     cnames |-> target_dnsmanager.answers["CNAME"],
     signature_name |-> None,
     matching_domain |-> None,
     technique |-> "CNAME Base Domain Expired",
     expiration_date |-> strftime(expiration_date)]

\* lines 156-202 with a loop over the expiration list in place of its first element
\* (lines 175-176): one finding for every element that is expired
WhoisFindings_EveryExpiration ==
    LET whois_result == cname_whoismanager.whois_result IN
       IF whois_result = None THEN <<>>
       ELSE IF whois_result.type = "error"
            THEN IF IsNoMatchError(whois_result.data)
                 THEN <<UnregisteredFinding>> ELSE <<>>
            ELSE IF whois_result.type = "response"
                 THEN LET expiration_data == whois_result.data.expiration_date
                          all == IF expiration_data.type = "list"
                                 THEN expiration_data.items ELSE <<expiration_data>>
                          dates == [i \in 1..Len(all) |-> date_parse(all[i])]
                          expired == SelectSeq(dates,
                                               LAMBDA d : d # None /\ IsExpired(d))
                      IN [i \in 1..Len(expired) |-> ExpiredFinding(expired[i])]
                 ELSE <<>>

\* lines 156-202: what the WHOIS cross-check appends
WhoisFindings ==
    LET whois_result == cname_whoismanager.whois_result IN
       IF whois_result = None THEN <<>>
       ELSE IF whois_result.type = "error"
            THEN IF IsNoMatchError(whois_result.data)
                 THEN <<UnregisteredFinding>> ELSE <<>>
            ELSE IF whois_result.type = "response"
                 THEN LET expiration_date ==
                              date_parse(FirstExpiration(whois_result.data.expiration_date))
                      IN IF expiration_date # None /\ IsExpired(expiration_date)
                         THEN <<ExpiredFinding(expiration_date)>> ELSE <<>>
                 ELSE <<>>

\* lines 72-204 with the WHOIS cross-check of lines 154-202 run before the branches
CnameAnalyzeResult_WhoisFirst ==
    IF cname_dnsmanager = None THEN Raised("AttributeError")
    ELSE IF cname_dnsmanager.answers["NXDOMAIN"]
         THEN IF cname_whoismanager = None THEN Raised("AttributeError")
              ELSE Returned(WhoisFindings \o NxdomainFindings)
         ELSE IF target_httpmanager = None THEN Raised("AttributeError")
              ELSE IF cname_whoismanager = None THEN Raised("AttributeError")
                   ELSE Returned(WhoisFindings \o HttpLoop(1, <<>>))

\* lines 72-204 with the test of line 74 inverted: the HTTP results are analyzed on a
\* dangling tail and the NXDOMAIN finding is made on a tail that resolves
CnameAnalyzeResult_BranchInverted ==
    IF cname_dnsmanager = None THEN Raised("AttributeError")
    ELSE IF ~cname_dnsmanager.answers["NXDOMAIN"]
         THEN IF cname_whoismanager = None THEN Raised("AttributeError")
              ELSE Returned(NxdomainFindings \o WhoisFindings)
         ELSE IF target_httpmanager = None THEN Raised("AttributeError")
              ELSE IF cname_whoismanager = None THEN Raised("AttributeError")
                   ELSE Returned(HttpLoop(1, <<>>) \o WhoisFindings)

\* lines 72-204: an attribute read on a manager that is still None raises
CnameAnalyzeResult ==
    IF cname_dnsmanager = None THEN Raised("AttributeError")
    ELSE IF cname_dnsmanager.answers["NXDOMAIN"]
         THEN IF cname_whoismanager = None THEN Raised("AttributeError")
              ELSE Returned(NxdomainFindings \o WhoisFindings)
         ELSE IF target_httpmanager = None THEN Raised("AttributeError")
              ELSE IF cname_whoismanager = None THEN Raised("AttributeError")
                   ELSE Returned(HttpLoop(1, <<>>) \o WhoisFindings)

DispatchEnded == pc \in {"returned_True", "returned_False", "raised"}

\* analyze is called on the state dispatch left behind
CnameAnalyze ==
    /\ name = "CNAME"
    /\ DispatchEnded
    /\ result = NotCalled
    /\ result' = CnameAnalyzeResult
    /\ UNCHANGED <<name, signatures, target, target_dnsmanager, cname_dnsmanager,
                   target_httpmanager, cname_whoismanager, pc, calls, net,
                   unknown_date, parsed, napplied>>

(***************************************************************************)
(* The inputs of the CNAME module: a signature corpus and a world.         *)
(***************************************************************************)
Target0 == <<"t", "g", "t">>
FirstAlias == <<"a", "l">>

Pa == <<"a">>
Paa == <<"a", "a">>
Pb == <<"b">>

\* a chain is its tail alone, or an alias followed by the tail
ChainsTo(tail) == {<<tail>>, <<FirstAlias, tail>>}

NoHttp == <<None, None, None, None>>
HttpBundles == [1..Len(NoHttp) -> {None, HttpResponse({"p"})}]

World(cname, nx, ips, http, whois) ==
    [cname |-> cname, nx |-> nx, ips |-> ips, http |-> http, whois |-> whois]

WhoisError(words) == [type |-> "error", data |-> words]
WhoisResponse(expiration_data) ==
    [type |-> "response", data |-> [expiration_date |-> expiration_data]]

ErrorMessages ==
    {<<"No", "match", "for", "d">>,
     <<"x", "No", "match", "for">>,
     <<"No", "match">>,
     <<"for", "match", "No">>,
     <<"timeout">>}

DateChars == {DigitChars[d + 1] : d \in 0..MaxDay} \cup {"x"}
DateStrings == {<<>>} \cup [{1} -> DateChars] \cup [{1, 2} -> DateChars]

ExpirationValues ==
    {Datetime(d, t) : d \in 0..MaxDay, t \in Tods}
        \cup {PyStr(s) : s \in DateStrings}
        \cup {Date(0), PyInt(0), None}

ExpirationData ==
    ExpirationValues
        \cup {PyList(<<e>>) : e \in ExpirationValues}
        \cup {PyList(<<e, f>>) : e \in ExpirationValues,
                                 f \in {Datetime(0, 0), Datetime(MaxDay, 0)}}

WhoisResults ==
    {None} \cup {WhoisError(m) : m \in ErrorMessages}
           \cup {WhoisResponse(e) : e \in ExpirationData}

\* the signatures the NXDOMAIN branch is tried on
NxdomainPool ==
    {Signature("dns_nxdomain", c, <<>>, <<>>, "") :
        c \in {<<>>, <<Pa>>, <<Pb>>, <<Pa, Paa>>, <<Paa, Pa>>}}
    \cup {Signature("http", <<Pa>>, <<>>, <<>>, "p"),
          Signature("dns_nosoa", <<Pb>>, <<>>, <<Pb>>, "")}

\* the signatures the live branch is tried on
HttpPool ==
    {Signature("http", <<>>, <<>>, <<>>, "p"),
     Signature("http", <<Paa, Pb>>, <<>>, <<>>, "p"),
     Signature("http", <<>>, <<"ip1", "ip2">>, <<>>, "p"),
     Signature("http", <<>>, <<>>, <<>>, "q"),
     Signature("dns_nxdomain", <<Pa>>, <<>>, <<>>, "p")}

\* every corpus over the NXDOMAIN pool, against every dangling tail
NxdomainSetup ==
    \E sigs \in Corpora(NxdomainPool, MaxSigs), t \in Domains :
       \E c \in ChainsTo(t), w \in {None, WhoisError(<<"No", "match", "for", "d">>)} :
          /\ signatures = sigs
          /\ net = World(PyList(c), TRUE, {}, NoHttp, w)

\* every corpus over the live pool, against live tails, resolved IPs and HTTP results
HttpSetup ==
    \E sigs \in Corpora(HttpPool, MaxSigs), t \in {Pa, Paa, <<"b", "a">>} :
       \E ips \in {{}, {"ip2"}, {"ip3"}}, http \in HttpBundles :
          /\ signatures = sigs
          /\ net = World(PyList(<<t>>), FALSE, ips, http, None)

\* a few corpora against every WHOIS result, on both branches
WhoisSetup ==
    \E sigs \in Corpora({Signature("http", <<>>, <<>>, <<>>, "p")}, MaxSigs),
       b \in {[nx |-> TRUE, http |-> NoHttp],
              [nx |-> FALSE, http |-> NoHttp],
              [nx |-> FALSE, http |-> [i \in 1..Len(NoHttp) |-> HttpResponse({"p"})]]},
       w \in WhoisResults :
          /\ signatures = sigs
          /\ net = World(PyList(<<FirstAlias, Pa>>), b.nx, {}, b.http, w)

\* targets without a CNAME
NoCnameSetup ==
    \E sigs \in Corpora(NxdomainPool \cup HttpPool, 1) :
       /\ signatures = sigs
       /\ net = World(None, FALSE, {}, NoHttp, None)

\* BadDNS_cname.__init__, lines 20-25
InitCname ==
    /\ name = "CNAME"
    /\ \/ NxdomainSetup
       \/ HttpSetup
       \/ WhoisSetup
       \/ NoCnameSetup
    /\ target = Target0
    /\ target_dnsmanager = DNSManager(Target0)
    /\ target_httpmanager = None
    /\ cname_dnsmanager = None
    /\ cname_whoismanager = None
    /\ pc = "init"
    /\ result = NotCalled
    /\ calls = <<>>
    /\ unknown_date = None
    /\ parsed = None
    /\ napplied = 0

NextCname ==
    \/ CnameDispatch
    \/ CnameTargetDnsFails
    \/ CnameTargetDnsReturns
    \/ CnameTailDnsFails
    \/ CnameTailDnsReturns
    \/ CnameHttpFails
    \/ CnameHttpReturns
    \/ CnameWhoisFails
    \/ CnameWhoisReturns
    \/ CnameAnalyze

SpecCname == InitCname /\ [][NextCname]_vars

(***************************************************************************)
(* Claims about the CNAME module, checked under SpecCname.                 *)
(***************************************************************************)
Count(findings, technique) ==
    Cardinality({i \in 1..Len(findings) : findings[i].technique = technique})

Indices(n) == [i \in 1..n |-> i]

\* analyze returned a list on a state whose tail is NXDOMAIN
AnalyzedNxdomain ==
    /\ result.kind = "return"
    /\ cname_dnsmanager.answers["NXDOMAIN"]

\* analyze returned a list on a state whose tail resolves
AnalyzedLive ==
    /\ result.kind = "return"
    /\ ~cname_dnsmanager.answers["NXDOMAIN"]

\* signature i is a dns_nxdomain signature with a pattern the tail ends with
NxdomainMatches(i) ==
    /\ signatures[i].mode = "dns_nxdomain"
    /\ \E k \in 1..Len(signatures[i].identifiers.cnames) :
          EndsWith(cname_dnsmanager.target, signatures[i].identifiers.cnames[k].value)

\* the first pattern of signature i the tail ends with
FirstPatternOf(i) ==
    LET c == signatures[i].identifiers.cnames
        k == CHOOSE k \in 1..Len(c) :
                /\ EndsWith(cname_dnsmanager.target, c[k].value)
                /\ \A j \in 1..(k - 1) : ~EndsWith(cname_dnsmanager.target, c[j].value)
    IN c[k].value

\* C1: on an NXDOMAIN tail the finding names the FIRST dns_nxdomain signature, in
\* corpus order, with a pattern that is a suffix of the tail, and its first such
\* pattern; a later matching signature never overrides it.
C1_FirstNxdomainSignatureWins ==
    (AnalyzedNxdomain /\ \E i \in 1..Len(signatures) : NxdomainMatches(i)) =>
        LET first == CHOOSE i \in 1..Len(signatures) :
                        NxdomainMatches(i) /\ \A j \in 1..(i - 1) : ~NxdomainMatches(j)
            f == result.value[1]
        IN /\ f.signature_name = PyStr(signatures[first].service_name)
           /\ f.matching_domain = PyStr(FirstPatternOf(first))

\* C2: on an NXDOMAIN tail the result holds exactly one "CNAME NXDOMAIN" finding, and
\* it is the first finding; with no matching dns_nxdomain signature it is the generic
\* one with a null matching_domain; a signature it names is always a dns_nxdomain
\* signature with a pattern the tail ends with, so http and dns_nosoa signatures never
\* influence it.
C2_OneNxdomainFinding ==
    AnalyzedNxdomain =>
        LET f == result.value[1] IN
           /\ Count(result.value, "CNAME NXDOMAIN") = 1
           /\ f.technique = "CNAME NXDOMAIN"
           /\ Count(result.value, "HTTP String Match") = 0
           /\ (~\E i \in 1..Len(signatures) : NxdomainMatches(i)) =>
                 /\ f.signature_name = PyStr("Generic Dangling CNAME")
                 /\ f.matching_domain = None
           /\ (\E i \in 1..Len(signatures) : NxdomainMatches(i)) =>
                 \E i \in 1..Len(signatures) :
                    /\ NxdomainMatches(i)
                    /\ f.signature_name = PyStr(signatures[i].service_name)
                    /\ f.matching_domain = PyStr(FirstPatternOf(i))

\* C2 witness: analyze ran on an NXDOMAIN tail that no dns_nxdomain signature matches
\* while a signature of another mode declares a pattern the tail ends with
C2_Witness ==
    /\ pc = "returned_True"
    /\ AnalyzedNxdomain
    /\ ~\E i \in 1..Len(signatures) : NxdomainMatches(i)
    /\ \E i \in 1..Len(signatures) :
          /\ signatures[i].mode # "dns_nxdomain"
          /\ \E k \in 1..Len(signatures[i].identifiers.cnames) :
                EndsWith(cname_dnsmanager.target, signatures[i].identifiers.cnames[k].value)
    /\ result.value[1].signature_name = PyStr("Generic Dangling CNAME")

\* signature i is an http signature that passes the CNAME filter, the IP filter and
\* the matcher
HttpQualifies(i) ==
    LET sig == signatures[i]
        tail == Last(target_dnsmanager.answers["CNAME"].items)
        variants == <<target_httpmanager.http_allowredirects_results,
                      target_httpmanager.http_denyredirects_results,
                      target_httpmanager.https_allowredirects_results,
                      target_httpmanager.https_denyredirects_results>>
    IN /\ sig.mode = "http"
       /\ \/ sig.identifiers.cnames = <<>>
          \/ \E k \in 1..Len(sig.identifiers.cnames) :
                Contains(tail, sig.identifiers.cnames[k].value)
       /\ \/ sig.identifiers.ips = <<>>
          \/ \E k \in 1..Len(sig.identifiers.ips) :
                sig.identifiers.ips[k] \in cname_dnsmanager.ips
       /\ \E v \in 1..Len(variants) :
             variants[v] # None /\ is_match(sig.matcher_rule, variants[v])

\* C3: on a live tail the "HTTP String Match" findings are, in corpus order, exactly
\* the http signatures that pass the CNAME filter, the IP filter and the matcher: one
\* finding each, none skipped after a first match, none for a signature that fails a
\* filter.
C3_HttpFindingsAreTheQualifyingSignatures ==
    AnalyzedLive =>
        LET q == SelectSeq(Indices(Len(signatures)), LAMBDA i : HttpQualifies(i))
            h == SelectSeq(result.value, LAMBDA f : f.technique = "HTTP String Match")
        IN /\ Len(h) = Len(q)
           /\ \A k \in 1..Len(q) : h[k].signature_name = PyStr(signatures[q[k]].service_name)
           /\ Count(result.value, "CNAME NXDOMAIN") = 0

\* C3 witness: both signatures of a corpus yield a finding, the second one through
\* an IP it declares after one that is not resolved
C3_Witness ==
    /\ pc = "returned_True"
    /\ AnalyzedLive
    /\ Count(result.value, "HTTP String Match") = 2
    /\ signatures[2].identifiers.ips # <<>>
    /\ signatures[2].identifiers.ips[1] \notin cname_dnsmanager.ips

\* C4: on a target without a CNAME dispatch returns False right after the first
\* resolution: nothing but that resolution was ever started, and the tail DNS
\* manager, the HTTP manager and the WHOIS manager are still unset.
C4_NoCnameEndsDispatch ==
    /\ net.cname = None =>
          /\ pc \in {"init", "await_target_dns", "returned_False", "raised"}
          /\ cname_dnsmanager = None
          /\ target_httpmanager = None
          /\ cname_whoismanager = None
          /\ Len(calls) <= 1
          /\ \A i \in 1..Len(calls) : calls[i] = Call("dispatchDNS", Target0, <<>>)
    /\ pc = "returned_False" =>
          /\ net.cname = None
          /\ target_dnsmanager.answers["CNAME"] = None
          /\ calls = <<Call("dispatchDNS", Target0, <<>>)>>

\* C4 witness: dispatch returned False
C4_Witness ==
    /\ pc = "returned_False"
    /\ target_dnsmanager.answers["A"] # None
    /\ cname_whoismanager = None

\* the WHOIS result analyze read, when it returned a list
AnalyzedWhois(type) ==
    /\ result.kind = "return"
    /\ cname_whoismanager.whois_result # None
    /\ cname_whoismanager.whois_result.type = type

\* C5: a WHOIS error whose text contains "No match for" yields exactly one
\* "CNAME unregistered" finding, with null signature_name and matching_domain, on
\* both branches and whatever the signatures produced; a WHOIS error without that text
\* yields no WHOIS-derived finding.
C5_UnregisteredOnNoMatchError ==
    AnalyzedWhois("error") =>
        LET data == cname_whoismanager.whois_result.data
            u == SelectSeq(result.value, LAMBDA f : f.technique = "CNAME unregistered")
        IN /\ Len(u) = (IF Contains(data, <<"No", "match", "for">>) THEN 1 ELSE 0)
           /\ \A k \in 1..Len(u) : u[k].signature_name = None /\ u[k].matching_domain = None
           /\ Count(result.value, "CNAME Base Domain Expired") = 0
           /\ Len(result.value) =
                 Len(u) + Count(result.value, "CNAME NXDOMAIN")
                        + Count(result.value, "HTTP String Match")

\* C5 witness: on a live tail two signature findings are followed by the
\* "CNAME unregistered" finding of an error that has the text after another word
C5_Witness ==
    /\ pc = "returned_True"
    /\ AnalyzedWhois("error")
    /\ ~cname_dnsmanager.answers["NXDOMAIN"]
    /\ cname_whoismanager.whois_result.data[1] = "x"
    /\ Count(result.value, "HTTP String Match") = 2
    /\ Count(result.value, "CNAME unregistered") = 1

\* the expiration value analyze looks at: the first element of a list, else the value
ExpirationLookedAt ==
    LET e == cname_whoismanager.whois_result.data.expiration_date IN
       IF e.type = "list" THEN e.items[1] ELSE e

\* C6: with a WHOIS response whose expiration date (the first element of a list, else
\* the value itself) is a datetime or a string that parses, the result holds exactly
\* one "CNAME Base Domain Expired" finding if that date is strictly earlier than the
\* current date and none if it is the current date or later, on both branches.
C6_ExpiredIffStrictlyEarlier ==
    AnalyzedWhois("response") =>
        LET e == ExpirationLookedAt
            n == Count(result.value, "CNAME Base Domain Expired")
        IN /\ e.type = "datetime" => n = (IF e.day < Today THEN 1 ELSE 0)
           /\ (e.type = "str" /\ ~ParseFails(e.v)) =>
                 n = (IF parser_parse(e.v).day < Today THEN 1 ELSE 0)
           /\ Count(result.value, "CNAME unregistered") = 0

\* C6 witness: a list whose first element is today's date, later in the day, and
\* whose second element is in the past: no finding
C6_Witness ==
    /\ pc = "returned_True"
    /\ AnalyzedWhois("response")
    /\ cname_whoismanager.whois_result.data.expiration_date.type = "list"
    /\ Len(cname_whoismanager.whois_result.data.expiration_date.items) = 2
    /\ ExpirationLookedAt = Datetime(Today, 1)
    /\ cname_whoismanager.whois_result.data.expiration_date.items[2].day < Today
    /\ Count(result.value, "CNAME Base Domain Expired") = 0

\* C9: analyze never returns a non-empty finding list on the state left by a dispatch
\* that returned False or was aborted by a collaborator failure.
C9_NoFindingFromFailedDispatch ==
    (pc \in {"returned_False", "raised"} /\ result.kind = "return") => result.value = <<>>

\* the await at which dispatch of the CNAME module is suspended while a call is running
AwaitOf(call) ==
    IF call.op = "dispatchDNS"
    THEN (IF call.omit_types = <<>> THEN "await_target_dns" ELSE "await_cname_dns")
    ELSE IF call.op = "dispatchHttp" THEN "await_http" ELSE "await_whois"

\* the calls a dispatch of the CNAME module starts when none of them fails
ExpectedCnameCalls ==
    <<Call("dispatchDNS", Target0, <<>>)>> \o
    (IF net.cname = None THEN <<>>
     ELSE LET tail == Last(net.cname.items) IN
             <<Call("dispatchDNS", tail, <<PyStr("CNAME")>>)>>
             \o (IF net.nx THEN <<>> ELSE <<Call("dispatchHttp", Target0, <<>>)>>)
             \o <<Call("dispatchWHOIS", tail, <<>>)>>)

IsPrefix(s, t) == Len(s) <= Len(t) /\ \A i \in 1..Len(s) : s[i] = t[i]

HttpFetchStarted == \E i \in 1..Len(calls) : calls[i].op = "dispatchHttp"

\* the tail resolution has returned: dispatch went past line 56
TailResolved ==
    \/ pc \in {"await_http", "await_whois", "returned_True"}
    \/ pc = "raised" /\ Len(calls) > 2

\* C11: dispatch of the CNAME module is strictly sequential.  The calls started are,
\* in this order, the resolution of the target, the resolution of the chain's tail,
\* the HTTP fetch (if any) and the WHOIS lookup; the call dispatch is suspended at is
\* the one started last, and a call is started only by the step in which the call
\* before it returns.  An HTTP fetch is started if and only if the tail resolution
\* returned without NXDOMAIN, and it is issued for the original target.
C11_CnameDispatchSequential ==
    /\ [](/\ IsPrefix(calls, ExpectedCnameCalls)
          /\ pc \in {"await_target_dns", "await_cname_dns", "await_http", "await_whois"}
                => (calls # <<>> /\ AwaitOf(calls[Len(calls)]) = pc)
          /\ HttpFetchStarted <=> (TailResolved /\ ~cname_dnsmanager.answers["NXDOMAIN"])
          /\ \A i \in 1..Len(calls) :
                calls[i].op = "dispatchHttp" =>
                   (calls[i].arg = Target0 /\ target_httpmanager.target = Target0))
    /\ [][calls' # calls =>
             /\ \E c \in {ExpectedCnameCalls[i] : i \in 1..Len(ExpectedCnameCalls)} :
                   calls' = Append(calls, c)
             /\ pc = (IF calls = <<>> THEN "init" ELSE AwaitOf(calls[Len(calls)]))
             /\ pc' = AwaitOf(calls'[Len(calls')])]_vars

\* C11 witness: a dispatch through a chain of two aliases whose tail resolves ran all
\* four calls, the fetch on the original target and the lookup on the tail
C11_Witness ==
    /\ pc = "returned_True"
    /\ Len(net.cname.items) = 2
    /\ Len(calls) = 4
    /\ calls[3] = Call("dispatchHttp", Target0, <<>>)
    /\ calls[4].arg # Target0
    /\ target_httpmanager.http_allowredirects_results # None

WhoisCalls == {i \in 1..Len(calls) : calls[i].op = "dispatchWHOIS"}

\* C12: on a target with a CNAME chain the WHOIS lookup is made on the last name of
\* the chain, never on the original target or on an alias before the last; no
\* dispatch makes it twice; a dispatch that returned True made it exactly once, on
\* either branch, and the step that returns True is the step in which the lookup
\* returns and its result is stored.
C12_OneWhoisLookupOnTheTail ==
    /\ [](/\ Cardinality(WhoisCalls) <= 1
          /\ \A i \in WhoisCalls :
                LET chain == net.cname.items IN
                   /\ calls[i].arg = chain[Len(chain)]
                   /\ calls[i].arg # Target0
                   /\ \A j \in 1..(Len(chain) - 1) : calls[i].arg # chain[j]
                   /\ cname_whoismanager.target = calls[i].arg
          /\ pc = "returned_True" =>
                /\ Cardinality(WhoisCalls) = 1
                /\ cname_whoismanager.whois_result = net.whois)
    /\ [][(pc' = "returned_True" /\ pc # "returned_True") =>
             /\ pc = "await_whois"
             /\ calls[Len(calls)].op = "dispatchWHOIS"
             /\ cname_whoismanager' = dispatchWHOIS(cname_whoismanager, net.whois)]_vars

\* C12 witness: a chain of two names with a dangling tail; the one lookup was made on
\* the second name and an answer came back
C12_Witness ==
    /\ pc = "returned_True"
    /\ cname_dnsmanager.answers["NXDOMAIN"]
    /\ Len(net.cname.items) = 2
    /\ Len(calls) = 3
    /\ calls[3] = Call("dispatchWHOIS", net.cname.items[2], <<>>)
    /\ cname_whoismanager.whois_result # None

\* C13: after a dispatch that returned True everything analyze reads is there: the
\* DNS manager of the tail and the WHOIS manager are set, the HTTP manager is set
\* whenever the tail's NXDOMAIN flag is false, and analyze, once called, returns a
\* list instead of failing on an attribute of None.
C13_AnalyzeInputsPopulated ==
    pc = "returned_True" =>
        /\ cname_dnsmanager # None
        /\ cname_whoismanager # None
        /\ ~cname_dnsmanager.answers["NXDOMAIN"] => target_httpmanager # None
        /\ CnameAnalyzeResult.kind = "return"
        /\ result # NotCalled => result.kind = "return"

\* C13 witness: analyze ran on the live branch after a successful dispatch and read
\* the HTTP results and the WHOIS result
C13_Witness ==
    /\ pc = "returned_True"
    /\ ~cname_dnsmanager.answers["NXDOMAIN"]
    /\ target_httpmanager.https_denyredirects_results # None
    /\ cname_whoismanager.whois_result # None
    /\ result.kind = "return"
    /\ Len(result.value) = 2

\* an expiration value that is no date: a string the parser rejects, a value of a
\* type that is neither datetime nor str, or None
NotNormalizable(e) == IF e.type = "str" THEN ParseFails(e.v) ELSE e.type # "datetime"

\* what the branch analyze took produces, before the WHOIS cross-check
BranchFindings ==
    IF cname_dnsmanager.answers["NXDOMAIN"] THEN NxdomainFindings ELSE HttpLoop(1, <<>>)

WhoisTechniques == {"CNAME unregistered", "CNAME Base Domain Expired"}
BranchTechniques == {"CNAME NXDOMAIN", "HTTP String Match"}

\* C18: in every list analyze returns, a finding of the WHOIS cross-check ("CNAME
\* unregistered" or "CNAME Base Domain Expired") is the last element if there is one,
\* every "CNAME NXDOMAIN" and "HTTP String Match" finding comes before it, and with
\* no WHOIS result at all the list holds findings of the branch only.
C18_WhoisFindingComesLast ==
    result.kind = "return" =>
        LET f == result.value IN
           /\ \A i \in 1..Len(f) : f[i].technique \in WhoisTechniques => i = Len(f)
           /\ \A i, j \in 1..Len(f) :
                 (f[i].technique \in BranchTechniques /\ f[j].technique \in WhoisTechniques)
                    => i < j
           /\ cname_whoismanager.whois_result = None =>
                 /\ f = BranchFindings
                 /\ \A i \in 1..Len(f) : f[i].technique \in BranchTechniques

\* C18 witness: two "HTTP String Match" findings followed by the finding of an
\* expired registration
C18_Witness ==
    /\ pc = "returned_True"
    /\ result.kind = "return"
    /\ Len(result.value) = 3
    /\ result.value[1].technique = "HTTP String Match"
    /\ result.value[2].technique = "HTTP String Match"
    /\ result.value[3].technique = "CNAME Base Domain Expired"

\* C19: the two branches exclude each other over a whole run of dispatch and analyze:
\* no returned list holds both a "CNAME NXDOMAIN" and an "HTTP String Match" finding;
\* an "HTTP String Match" finding is returned only when dispatch made the HTTP fetch,
\* a "CNAME NXDOMAIN" finding only when it made none.
C19_BranchesExcludeEachOther ==
    result.kind = "return" =>
        LET nxdomain == Count(result.value, "CNAME NXDOMAIN")
            http == Count(result.value, "HTTP String Match")
        IN /\ ~(nxdomain > 0 /\ http > 0)
           /\ http > 0 =>
                 /\ HttpFetchStarted
                 /\ target_httpmanager # None
                 /\ ~cname_dnsmanager.answers["NXDOMAIN"]
           /\ nxdomain > 0 =>
                 /\ ~HttpFetchStarted
                 /\ target_httpmanager = None
                 /\ cname_dnsmanager.answers["NXDOMAIN"]

\* C19 witness: after a fetch, one of two signatures matched the responses: one
\* "HTTP String Match" finding and nothing else
C19_Witness ==
    /\ pc = "returned_True"
    /\ HttpFetchStarted
    /\ Len(signatures) = 2
    /\ result.kind = "return"
    /\ Len(result.value) = 1
    /\ result.value[1].technique = "HTTP String Match"
    /\ result.value[1].signature_name = PyStr(signatures[2].service_name)

\* C20: every list analyze returns holds at most one finding of the WHOIS
\* cross-check, so "CNAME unregistered" and "CNAME Base Domain Expired" never come
\* together, and on the NXDOMAIN branch the list has one or two findings.
C20_AtMostOneWhoisFinding ==
    result.kind = "return" =>
        LET f == result.value
            whois == {i \in 1..Len(f) : f[i].technique \in WhoisTechniques}
        IN /\ Cardinality(whois) <= 1
           /\ ~(/\ Count(f, "CNAME unregistered") > 0
                /\ Count(f, "CNAME Base Domain Expired") > 0)
           /\ cname_dnsmanager.answers["NXDOMAIN"] =>
                 /\ Len(f) \in {1, 2}
                 /\ Len(f) = 1 + Cardinality(whois)

\* C20 witness: a dangling tail and an expiration list of two dates, both in the
\* past: the NXDOMAIN finding and one "CNAME Base Domain Expired" finding
C20_Witness ==
    /\ pc = "returned_True"
    /\ AnalyzedNxdomain
    /\ AnalyzedWhois("response")
    /\ cname_whoismanager.whois_result.data.expiration_date.type = "list"
    /\ Len(cname_whoismanager.whois_result.data.expiration_date.items) = 2
    /\ cname_whoismanager.whois_result.data.expiration_date.items[2].day < Today
    /\ Len(result.value) = 2
    /\ result.value[1].technique = "CNAME NXDOMAIN"
    /\ result.value[2].technique = "CNAME Base Domain Expired"

(***************************************************************************)
(* BadDNS_ns.dispatch, one action per await.  The world of the NS module   *)
(* answers for two zones: "orig", the target as given, and "tail", the end *)
(* of its CNAME chain.                                                     *)
(***************************************************************************)
Zone(domain) == IF domain = Target0 THEN "orig" ELSE "tail"

\* what the resolver answers for a domain
NsReply(domain) ==
    [rr |-> [k \in RecordTypes |->
                IF k = "CNAME" THEN (IF Zone(domain) = "orig" THEN net.cname ELSE None)
                ELSE IF k \in {"NS", "SOA"} THEN net.rr[Zone(domain)][k]
                ELSE SomeRecords],
     nx |-> FALSE,
     ips |-> {}]

\* line 23: the omit_types argument is a list whose one element is a list
FirstOmitTypes == <<PyList(<<"A", "AAAA", "MX", "NS", "SOA", "TXT">>)>>

\* line 33
SecondOmitTypes == <<PyStr("CNAME"), PyStr("NS")>>

\* dispatch is called: line 23 starts the first resolution
NsDispatch ==
    /\ name = "NS"
    /\ pc = "init"
    /\ calls' = Append(calls, Call("dispatchDNS", target_dnsmanager.target, FirstOmitTypes))
    /\ pc' = "await_first_dns"
    /\ UNCHANGED <<name, signatures, target, target_dnsmanager, cname_dnsmanager,
                   target_httpmanager, cname_whoismanager, result, net,
                   unknown_date, parsed, napplied>>

\* line 23 raises: the store holds what was resolved before the failure
NsFirstDnsFails ==
    /\ pc = "await_first_dns"
    /\ \E dm \in {target_dnsmanager,
                  dispatchDNS(target_dnsmanager, FirstOmitTypes,
                              NsReply(target_dnsmanager.target))} :
          target_dnsmanager' = dm
    /\ pc' = "raised"
    /\ UNCHANGED <<name, signatures, target, cname_dnsmanager, target_httpmanager,
                   cname_whoismanager, result, calls, net, unknown_date, parsed, napplied>>

\* lines 25-33 without lines 25-31: a CNAME chain is found and nothing is rewritten
NsFirstDnsReturns_NoRewrite ==
    /\ pc = "await_first_dns"
    /\ LET dm == dispatchDNS(target_dnsmanager, FirstOmitTypes,
                             NsReply(target_dnsmanager.target))
       IN /\ target_dnsmanager' = dm
          /\ calls' = Append(calls, Call("dispatchDNS", dm.target, SecondOmitTypes))
          /\ UNCHANGED target
    /\ pc' = "await_second_dns"
    /\ UNCHANGED <<name, signatures, cname_dnsmanager, target_httpmanager, cname_whoismanager,
                   result, net, unknown_date, parsed, napplied>>

\* line 23 returns; lines 25-33
NsFirstDnsReturns ==
    /\ pc = "await_first_dns"
    /\ LET dm == dispatchDNS(target_dnsmanager, FirstOmitTypes,
                             NsReply(target_dnsmanager.target))
       IN IF dm.answers["CNAME"] # None
          THEN LET tail == Last(dm.answers["CNAME"].items) IN
                  /\ target_dnsmanager' = reset_answers([dm EXCEPT !.target = tail])
                  /\ target' = tail
                  /\ calls' = Append(calls, Call("dispatchDNS", tail, SecondOmitTypes))
          ELSE /\ target_dnsmanager' = dm
               /\ calls' = Append(calls, Call("dispatchDNS", dm.target, SecondOmitTypes))
               /\ UNCHANGED target
    /\ pc' = "await_second_dns"
    /\ UNCHANGED <<name, signatures, cname_dnsmanager, target_httpmanager, cname_whoismanager,
                   result, net, unknown_date, parsed, napplied>>

\* line 33 raises
NsSecondDnsFails ==
    /\ pc = "await_second_dns"
    /\ \E dm \in {target_dnsmanager,
                  dispatchDNS(target_dnsmanager, SecondOmitTypes,
                              NsReply(target_dnsmanager.target))} :
          target_dnsmanager' = dm
    /\ pc' = "raised"
    /\ UNCHANGED <<name, signatures, target, cname_dnsmanager, target_httpmanager,
                   cname_whoismanager, result, calls, net, unknown_date, parsed, napplied>>

\* line 33 returns; lines 35-36 start the delegation walk
NsSecondDnsReturns ==
    /\ pc = "await_second_dns"
    /\ target_dnsmanager' = dispatchDNS(target_dnsmanager, SecondOmitTypes,
                                        NsReply(target_dnsmanager.target))
    /\ calls' = Append(calls, Call("ns_trace", target, <<>>))
    /\ pc' = "await_ns_trace"
    /\ UNCHANGED <<name, signatures, target, cname_dnsmanager, target_httpmanager,
                   cname_whoismanager, result, net, unknown_date, parsed, napplied>>

\* line 36 raises: nothing is stored
NsTraceFails ==
    /\ pc = "await_ns_trace"
    /\ pc' = "raised"
    /\ UNCHANGED <<name, signatures, target, target_dnsmanager, cname_dnsmanager,
                   target_httpmanager, cname_whoismanager, result, calls, net,
                   unknown_date, parsed, napplied>>

\* line 36 returns; line 37
NsTraceReturns ==
    /\ pc = "await_ns_trace"
    /\ target_dnsmanager' =
          [target_dnsmanager EXCEPT !.answers["NS"] = PyList(net.trace[Zone(target)])]
    /\ pc' = "returned_True"
    /\ UNCHANGED <<name, signatures, target, cname_dnsmanager, target_httpmanager,
                   cname_whoismanager, result, calls, net, unknown_date, parsed, napplied>>

(***************************************************************************)
(* BadDNS_ns.analyze.                                                      *)
(***************************************************************************)
\* lines 39-53; the two lists are built from sets, so their order is not fixed
get_substring_matches(nameservers, strings) ==
    LET matched_nameservers ==
            {nameservers[i] : i \in {i \in 1..Len(nameservers) :
                \E j \in 1..Len(strings) : Contains(nameservers[i], strings[j])}}
        matched_signatures ==
            {strings[j] : j \in {j \in 1..Len(strings) :
                \E i \in 1..Len(nameservers) : Contains(nameservers[i], strings[j])}}
    IN IF matched_nameservers = {} /\ matched_signatures = {}
       THEN None
       ELSE [type |-> "tuple",
             matched_nameservers |-> matched_nameservers,
             matched_signatures |-> matched_signatures]

\* line 70
NosoaModeSelected(sig) == sig.mode = "dns_nosoa"

Generic == [signature_name |-> PyStr("GENERIC"), matching_signatures |-> None]

\* lines 69-79 without the break of line 79: the last matching signature is kept
RECURSIVE NosoaLoop_NoBreak(_, _)
NosoaLoop_NoBreak(i, target_nameservers) ==
    IF i > Len(signatures) THEN Generic
    ELSE LET sig == signatures[i]
             r == IF NosoaModeSelected(sig)
                  THEN get_substring_matches(target_nameservers, sig.identifiers.nameservers)
                  ELSE None
             later == NosoaLoop_NoBreak(i + 1, target_nameservers)
         IN IF later # Generic \/ r = None THEN later
            ELSE [signature_name |-> PyStr(sig.service_name),
                  matching_signatures |-> [type |-> "list", members |-> r.matched_signatures]]

\* lines 66-79: the loop over the corpus from position i on, left at the first
\* signature that matches
RECURSIVE NosoaLoop(_, _)
NosoaLoop(i, target_nameservers) ==
    IF i > Len(signatures) THEN Generic
    ELSE LET sig == signatures[i]
             r == IF NosoaModeSelected(sig)
                  THEN get_substring_matches(target_nameservers, sig.identifiers.nameservers)
                  ELSE None
         IN IF r # None
            THEN [signature_name |-> PyStr(sig.service_name),
                  matching_signatures |-> [type |-> "list", members |-> r.matched_signatures]]
            ELSE NosoaLoop(i + 1, target_nameservers)

\* line 63 with the test inverted
SoaAbsent_Inverted(answers) == answers["SOA"] # None

\* line 63
SoaAbsent(answers) == answers["SOA"] = None

\* lines 55-91: len() of an NS entry that is still None raises
NsAnalyzeResult ==
    LET answers == target_dnsmanager.answers IN
       IF answers["NS"] = None THEN Raised("TypeError")
       ELSE IF Len(answers["NS"].items) > 0
            THEN LET target_nameservers == answers["NS"].items IN
                    IF SoaAbsent(answers)
                    THEN LET m == NosoaLoop(1, target_nameservers) IN
                            Returned(<<[target |-> target_dnsmanager.target,
                                        nameservers |-> target_nameservers,
                                        signature_name |-> m.signature_name,
                                        matching_signatures |-> m.matching_signatures,
                                        technique |-> "NS RECORD WITHOUT SOA"]>>)
                    ELSE Returned(<<>>)
            ELSE ReturnedFalse

\* analyze is called on the state dispatch left behind
NsAnalyze ==
    /\ name = "NS"
    /\ DispatchEnded
    /\ result = NotCalled
    /\ result' = NsAnalyzeResult
    /\ UNCHANGED <<name, signatures, target, target_dnsmanager, cname_dnsmanager,
                   target_httpmanager, cname_whoismanager, pc, calls, net,
                   unknown_date, parsed, napplied>>

(***************************************************************************)
(* The inputs of the NS module.                                            *)
(***************************************************************************)
NsNames == {Pa, Pb, Paa, <<"b", "a">>}
NsLists == {<<>>} \cup {<<n>> : n \in NsNames} \cup {<<n, m>> : n \in NsNames, m \in NsNames}

NsWorld(cname, orig, tail, trace_orig, trace_tail) ==
    [cname |-> cname,
     rr |-> [z \in {"orig", "tail"} |-> IF z = "orig" THEN orig ELSE tail],
     trace |-> [z \in {"orig", "tail"} |-> IF z = "orig" THEN trace_orig ELSE trace_tail]]

ZoneAnswers == [{"NS", "SOA"} -> {None, SomeRecords}]

NosoaPool ==
    {Signature("dns_nosoa", <<>>, <<>>, n, "") :
        n \in {<<>>, <<Pa>>, <<Pb>>, <<Paa, Pb>>}}
    \cup {Signature("dns_nxdomain", <<Pa>>, <<>>, <<Pa>>, ""),
          Signature("http", <<>>, <<>>, <<Pb>>, "p")}

\* every corpus over the pool against every delegation, for a target without a CNAME
NsPlainSetup ==
    \E sigs \in Corpora(NosoaPool, MaxSigs), orig \in ZoneAnswers, trace \in NsLists :
       /\ signatures = sigs
       /\ net = NsWorld(None, orig, [NS |-> None, SOA |-> None], trace, <<>>)

\* and for a target with a CNAME chain
NsChainSetup ==
    \E sigs \in Corpora(NosoaPool, MaxSigs), c \in ChainsTo(Pa) :
       \E soa \in {None, SomeRecords}, trace \in NsLists :
          /\ signatures = sigs
          /\ net = NsWorld(PyList(c), [NS |-> SomeRecords, SOA |-> None],
                           [NS |-> None, SOA |-> soa], <<Pb>>, trace)

\* BadDNS_ns.__init__, lines 15-19
InitNs ==
    /\ name = "NS"
    /\ \/ NsPlainSetup
       \/ NsChainSetup
    /\ target = Target0
    /\ target_dnsmanager = DNSManager(Target0)
    /\ target_httpmanager = None
    /\ cname_dnsmanager = None
    /\ cname_whoismanager = None
    /\ pc = "init"
    /\ result = NotCalled
    /\ calls = <<>>
    /\ unknown_date = None
    /\ parsed = None
    /\ napplied = 0

NextNs ==
    \/ NsDispatch
    \/ NsFirstDnsFails
    \/ NsFirstDnsReturns
    \/ NsSecondDnsFails
    \/ NsSecondDnsReturns
    \/ NsTraceFails
    \/ NsTraceReturns
    \/ NsAnalyze

SpecNs == InitNs /\ [][NextNs]_vars

(***************************************************************************)
(* Claims about the NS module, checked under SpecNs.                       *)
(***************************************************************************)
\* C7: analyze of the NS module returns False on an empty NS set, with or without an
\* SOA; an empty list on a non-empty NS set with an SOA; and a list of exactly one
\* "NS RECORD WITHOUT SOA" finding on a non-empty NS set without an SOA, whatever the
\* corpus holds.
C7_NsAnalyzeCases ==
    (result # NotCalled /\ target_dnsmanager.answers["NS"] # None) =>
        LET ns == target_dnsmanager.answers["NS"].items
            soa == target_dnsmanager.answers["SOA"]
        IN /\ ns = <<>> => result = ReturnedFalse
           /\ (ns # <<>> /\ soa # None) => result = Returned(<<>>)
           /\ (ns # <<>> /\ soa = None) =>
                 /\ result.kind = "return"
                 /\ Len(result.value) = 1
                 /\ result.value[1].technique = "NS RECORD WITHOUT SOA"
                 /\ result.value[1].nameservers = ns

\* C7 witness: after a dispatch that followed a CNAME, nameservers without an SOA,
\* against a corpus of two signatures
C7_Witness ==
    /\ pc = "returned_True"
    /\ target # Target0
    /\ Len(signatures) > 1
    /\ target_dnsmanager.answers["NS"].items # <<>>
    /\ target_dnsmanager.answers["SOA"] = None
    /\ result.kind = "return"
    /\ Len(result.value) = 1

\* the patterns of signature i that occur in at least one discovered nameserver
PatternsFound(i, ns) ==
    LET strings == signatures[i].identifiers.nameservers IN
       {strings[j] : j \in {j \in 1..Len(strings) :
           \E n \in 1..Len(ns) : Contains(ns[n], strings[j])}}

\* signature i is a dns_nosoa signature with a pattern found in a nameserver
NosoaMatches(i, ns) == signatures[i].mode = "dns_nosoa" /\ PatternsFound(i, ns) # {}

\* C8: the finding of the NS module names the FIRST dns_nosoa signature, in corpus
\* order, with a pattern that occurs in a discovered nameserver, and
\* matching_signatures holds exactly the patterns of that signature that occur in at
\* least one nameserver; with no such signature it is "GENERIC" with a null
\* matching_signatures.
C8_FirstNosoaSignatureWins ==
    (result.kind = "return" /\ result.value # <<>>) =>
        LET f == result.value[1]
            ns == target_dnsmanager.answers["NS"].items
        IN IF \E i \in 1..Len(signatures) : NosoaMatches(i, ns)
           THEN LET first == CHOOSE i \in 1..Len(signatures) :
                                /\ NosoaMatches(i, ns)
                                /\ \A j \in 1..(i - 1) : ~NosoaMatches(j, ns)
                IN /\ f.signature_name = PyStr(signatures[first].service_name)
                   /\ f.matching_signatures.type = "list"
                   /\ f.matching_signatures.members = PatternsFound(first, ns)
           ELSE /\ f.signature_name = PyStr("GENERIC")
                /\ f.matching_signatures = None

\* C8 witness: two signatures match; the first declares two patterns, one of which
\* occurs in a nameserver
C8_Witness ==
    /\ pc = "returned_True"
    /\ result.kind = "return"
    /\ result.value # <<>>
    /\ Len(signatures) = 2
    /\ NosoaMatches(1, target_dnsmanager.answers["NS"].items)
    /\ NosoaMatches(2, target_dnsmanager.answers["NS"].items)
    /\ Len(signatures[1].identifiers.nameservers) = 2
    /\ Cardinality(result.value[1].matching_signatures.members) = 1
    /\ result.value[1].signature_name = PyStr("ACME")

\* the name the NS checks are meant for: the end of the CNAME chain, or the target
\* itself when it has no CNAME
FinalTarget == IF net.cname = None THEN Target0 ELSE Last(net.cname.items)

\* C14: when the first resolution finds a CNAME chain, the target of the module and
\* the target of the DNS manager are both the last name of the chain, and the store
\* is empty, by the time the second resolution is started; in every execution the
\* second resolution omits CNAME and NS and is made for the final target, and so is
\* the delegation walk; after dispatch the NS entry is the walk's result for the
\* final target, and the SOA and NS entries analyze reads are those of the final
\* target, not of the alias dispatch was given.
C14_NsChecksApplyToChainEnd ==
    /\ Len(calls) >= 2 =>
          /\ calls[2] = Call("dispatchDNS", FinalTarget, SecondOmitTypes)
          /\ target = FinalTarget
          /\ target_dnsmanager.target = FinalTarget
    /\ (pc = "await_second_dns" /\ net.cname # None) =>
          target_dnsmanager.answers = DNSManager(FinalTarget).answers
    /\ Len(calls) >= 3 => calls[3] = Call("ns_trace", FinalTarget, <<>>)
    /\ Len(calls) <= 3
    /\ pc = "returned_True" =>
          /\ Len(calls) = 3
          /\ target_dnsmanager.answers["NS"] = PyList(net.trace[Zone(FinalTarget)])
          /\ target_dnsmanager.answers["SOA"] = net.rr[Zone(FinalTarget)]["SOA"]
          /\ \A i \in 1..(IF result.kind = "return" THEN Len(result.value) ELSE 0) :
                /\ result.value[i].target = FinalTarget
                /\ result.value[i].nameservers = net.trace[Zone(FinalTarget)]

\* C14 witness: a chain of two names; the alias has no SOA and the nameserver "b", the
\* end of the chain has an SOA and other nameservers, and analyze read the latter
C14_Witness ==
    /\ pc = "returned_True"
    /\ net.cname # None
    /\ Len(net.cname.items) = 2
    /\ target = net.cname.items[2]
    /\ net.rr["orig"]["SOA"] = None
    /\ target_dnsmanager.answers["SOA"] # None
    /\ target_dnsmanager.answers["NS"].items # <<>>
    /\ target_dnsmanager.answers["NS"].items # net.trace["orig"]
    /\ result = Returned(<<>>)

\* C15: the first resolution of the NS module is restricted to the CNAME: each of A,
\* AAAA, MX, NS, SOA and TXT is an element of the omit_types list handed to the
\* resolver for that round, and none of them is stored for the original target while
\* the second resolution is awaited.
C15_FirstRoundOnlyCname ==
    /\ Len(calls) >= 1 =>
          \A k \in RecordTypes \ {"CNAME"} : Omitted(k, calls[1].omit_types)
    /\ (pc = "await_second_dns" /\ net.cname = None) =>
          \A k \in RecordTypes \ {"CNAME"} : target_dnsmanager.answers[k] = None

(***************************************************************************)
(* Both modules: an instance is of either class.                           *)
(***************************************************************************)
InitBoth ==
    \/ InitCname
    \/ InitNs

NextBoth ==
    \/ CnameDispatch
    \/ CnameTargetDnsFails
    \/ CnameTargetDnsReturns
    \/ CnameTailDnsFails
    \/ CnameTailDnsReturns
    \/ CnameHttpFails
    \/ CnameHttpReturns
    \/ CnameWhoisFails
    \/ CnameWhoisReturns
    \/ CnameAnalyze
    \/ NsDispatch
    \/ NsFirstDnsFails
    \/ NsFirstDnsReturns
    \/ NsSecondDnsFails
    \/ NsSecondDnsReturns
    \/ NsTraceFails
    \/ NsTraceReturns
    \/ NsAnalyze

SpecBoth == InitBoth /\ [][NextBoth]_vars

\* a collaborator call made by dispatch raises
CollaboratorFails ==
    \/ CnameTargetDnsFails
    \/ CnameTailDnsFails
    \/ CnameHttpFails
    \/ CnameWhoisFails
    \/ NsFirstDnsFails
    \/ NsSecondDnsFails
    \/ NsTraceFails

\* C16: in both modules a failure of a collaborator call ends dispatch with that
\* failure: the step in which the resolver, the HTTP fetch, the WHOIS lookup or the
\* delegation walk fails leaves dispatch raised, neither returned True nor returned
\* False, and starts no call; and a dispatch that raised stays raised and starts no
\* call afterwards.
C16_CollaboratorFailurePropagates ==
    [][/\ CollaboratorFails => (pc' = "raised" /\ calls' = calls)
       /\ pc = "raised" => (pc' = "raised" /\ calls' = calls)
       /\ (pc' = "raised" /\ pc # "raised") => CollaboratorFails]_vars

\* C16 witness: the HTTP fetch of the CNAME module failed after two of its four
\* variants; dispatch raised and the WHOIS lookup was never started
C16_Witness ==
    /\ name = "CNAME"
    /\ pc = "raised"
    /\ Len(calls) = 3
    /\ calls[3].op = "dispatchHttp"
    /\ target_httpmanager.http_denyredirects_results # None
    /\ target_httpmanager.https_allowredirects_results = None
    /\ cname_whoismanager = None
    /\ result # NotCalled

(***************************************************************************)
(* date_parse applied again and again to one value.                        *)
(***************************************************************************)
MaxApply == 3   \* how often date_parse is applied

InitDate ==
    /\ name = "CNAME"
    /\ unknown_date \in ExpirationValues
    /\ parsed = unknown_date
    /\ napplied = 0
    /\ signatures = <<>>
    /\ net = World(None, FALSE, {}, NoHttp, None)
    /\ target = Target0
    /\ target_dnsmanager = DNSManager(Target0)
    /\ target_httpmanager = None
    /\ cname_dnsmanager = None
    /\ cname_whoismanager = None
    /\ pc = "init"
    /\ result = NotCalled
    /\ calls = <<>>

\* date_parse is applied to the value it returned last
DateParse ==
    /\ napplied < MaxApply
    /\ parsed' = date_parse(parsed)
    /\ napplied' = napplied + 1
    /\ UNCHANGED <<name, signatures, target, target_dnsmanager, cname_dnsmanager,
                   target_httpmanager, cname_whoismanager, pc, result, calls, net,
                   unknown_date>>

NextDate == DateParse

SpecDate == InitDate /\ [][NextDate]_vars

\* C10: date_parse is idempotent: applied twice or more to any value (a datetime, a
\* string that parses, one that does not, a value of another type, None) it gives
\* what one application gives, and a datetime is returned unchanged.
C10_DateParseIdempotent ==
    /\ napplied >= 1 => parsed = date_parse(unknown_date)
    /\ napplied >= 1 => date_parse(parsed) = parsed
    /\ (napplied >= 1 /\ unknown_date.type = "datetime") => parsed = unknown_date

\* C10 witness: a string that parses, normalized twice
C10_Witness ==
    /\ napplied = 2
    /\ unknown_date.type = "str"
    /\ parsed.type = "datetime"
    /\ parsed.tod = 1

====
